---- MODULE Spec2Model ----
(***************************************************************************)
(* The Label Studio MCP tool layer (label_studio_mcp/mcp_server.py and      *)
(* mcp_env.py): ten tools, each wrapped by require_ls_connection, each a    *)
(* pass-through to the Label Studio client followed by serialisation.       *)
(* One action per tool invocation; what the remote platform (and the local  *)
(* file system) answers is drawn from small sets inside the action.         *)
(***************************************************************************)
EXTENDS Integers, Sequences, FiniteSets, TLC

VARIABLES
    ls,                   \* mcp_env.ls: "None" or the client handle
    remote_label_config,  \* the remote platform: label_config of each project
    tool,                 \* name of the tool invoked last ("" before any)
    args,                 \* keyword arguments the caller supplied to it
    calls,                \* client / file calls issued by that invocation, in order
    ret                   \* what that invocation returned to the hosting runtime

vars == <<ls, remote_label_config, tool, args, calls, ret>>

-----------------------------------------------------------------------------
(* Bounds of the model *)

\* a pager yields 0..MaxShort entries, or from a tool's limit to MaxOver
\* over it
MaxShort == 1
MaxOver == 1
\* project ids the caller passes / the remote platform holds
MaxProjectId == 1
\* most annotations a task carries
MaxAnnotations == 1

ProjectIds == 1..MaxProjectId
\* one task per project: its id follows the project ids
TaskIds == {p + MaxProjectId : p \in ProjectIds}
ProjectOf(task_id) == task_id - MaxProjectId

-----------------------------------------------------------------------------
(* Python values.  t is the Python type name; i the integer content (an     *)
(* int's value, a datetime's instant, a bool as 0/1); s the text of a       *)
(* string or the name of an opaque container; fmt how a string was          *)
(* produced; dt whether a raw datetime object is the value or sits inside   *)
(* it.                                                                      *)

Val(t, i, s, fmt, dt) == [t |-> t, i |-> i, s |-> s, fmt |-> fmt, dt |-> dt]

None == Val("NoneType", 0, "", "", FALSE)
VInt(n) == Val("int", n, "", "", FALSE)
VStr(s) == Val("str", 0, s, "", FALSE)
VFloat(s) == Val("float", 0, s, "", FALSE)
VBool(b) == Val("bool", IF b THEN 1 ELSE 0, "", "", FALSE)
VDatetime(n) == Val("datetime", n, "", "", TRUE)
VList(s, dt) == Val("list", 0, s, "", dt)
VDict(s, dt) == Val("dict", 0, s, "", dt)
VMethod(s) == Val("method", 0, s, "", FALSE)

\* datetime.isoformat(): the ISO-8601 text of the instant
IsoFormat(v) == Val("str", v.i, "", "isoformat", FALSE)
\* str(x) of a value or object: its printed representation
StrOf(name, i) == Val("str", i, name, "str()", FALSE)

\* hasattr(value, 'isoformat'): datetime objects have it
HasIsoformat(v) == v.t = "datetime"

\* A Python object: its class family and its attributes.
\*   "pydantic_v2": has model_dump and dict;  "pydantic_v1": has dict only;
\*   "dict": a builtin mapping;  "object": attributes only.
Obj(cls, f) == [cls |-> cls, f |-> f]
HasAttr(o, a) ==
    \/ o.cls # "dict" /\ a \in DOMAIN o.f
    \/ a = "model_dump" /\ o.cls = "pydantic_v2"
    \/ a = "dict" /\ o.cls \in {"pydantic_v2", "pydantic_v1"}
IsDict(o) == o.cls = "dict"

\* mapping helpers
DictSet(d, k, v) == [x \in DOMAIN d \cup {k} |-> IF x = k THEN v ELSE d[x]]
DictDel(d, ks) == [x \in DOMAIN d \ ks |-> d[x]]
EmptyDict == [x \in {} |-> None]

-----------------------------------------------------------------------------
(* Exceptions and what a call gives back *)

\* an exception: its class name and str(e) as a token sequence
Exc(kind, msg) == [kind |-> kind, msg |-> msg]

\* class hierarchy of the exception classes that occur (child, parent)
Parents ==
    [FileNotFoundError |-> "OSError", PermissionError |-> "OSError",
     IsADirectoryError |-> "OSError", OSError |-> "Exception",
     JSONDecodeError |-> "ValueError", UnicodeDecodeError |-> "ValueError",
     ValueError |-> "Exception", TypeError |-> "Exception",
     AttributeError |-> "Exception", ApiError |-> "Exception",
     ConnectError |-> "Exception", Exception |-> "BaseException"]

RECURSIVE IsInstance(_, _)
IsInstance(kind, cls) ==
    \/ kind = cls
    \/ kind \in DOMAIN Parents /\ IsInstance(Parents[kind], cls)

\* errors the client raises on a remote call
RemoteErrors ==
    {Exc("ApiError", <<"status_code: 404, body: not found">>),
     Exc("ConnectError", <<"[Errno 111] Connection refused">>)}

\* outcome of one client call: raised, or the objects it returned; a pager
\* that breaks yields objs and then raises on fetching the next page
Ok(objs) ==
    [raised |-> FALSE, breaks |-> FALSE, kind |-> "", msg |-> <<>>, objs |-> objs]
Err(e) ==
    [raised |-> TRUE, breaks |-> FALSE, kind |-> e.kind, msg |-> e.msg, objs |-> <<>>]
Broken(objs, e) ==
    [raised |-> FALSE, breaks |-> TRUE, kind |-> e.kind, msg |-> e.msg, objs |-> objs]
Raising == {Err(e) : e \in RemoteErrors}
\* the error of a pager that breaks
PageError == Exc("ConnectError", <<"[Errno 104] Connection reset by peer">>)

Call(op, kw, out) == [op |-> op, kw |-> kw, out |-> out]

-----------------------------------------------------------------------------
(* What a tool function returns or raises *)

\* a str holding JSON text, a str of message tokens, or a value handed back as is
\* (shape of a JSON text: "object" a mapping of values, "array" a list of
\* mappings, "value" one value)
RetJson(shape, payload) ==
    [ty |-> "str", form |-> "json", shape |-> shape, payload |-> payload, text |-> <<>>]
RetText(tokens) ==
    [ty |-> "str", form |-> "text", shape |-> "", payload |-> <<>>, text |-> tokens]
RetValue(v) ==
    [ty |-> v.t, form |-> "raw", shape |-> "", payload |-> <<v>>, text |-> <<>>]
NoRet ==
    [ty |-> "NoneType", form |-> "none", shape |-> "", payload |-> <<>>, text |-> <<>>]

Return(r, cs, cfg) ==
    [raised |-> FALSE, kind |-> "", msg |-> <<>>, val |-> r, calls |-> cs, cfg |-> cfg]
Raise(e, cs, cfg) ==
    [raised |-> TRUE, kind |-> e.kind, msg |-> e.msg, val |-> NoRet, calls |-> cs, cfg |-> cfg]

\* traceback.format_exc()
Traceback == "Traceback (most recent call last): ..."

-----------------------------------------------------------------------------
(* json.dumps without a default= hook *)

\* JSON form of one value
JsonValue(v) ==
    [v EXCEPT !.t = CASE v.t = "NoneType" -> "null"
                      [] v.t = "bool" -> IF v.i = 1 THEN "true" ELSE "false"
                      [] v.t \in {"int", "float"} -> "number"
                      [] v.t = "str" -> "string"
                      [] v.t = "list" -> "array"
                      [] v.t = "dict" -> "object"
                      [] OTHER -> v.t]

JsonTypeError ==
    Exc("TypeError", <<"Object of type datetime is not JSON serializable">>)

\* a mapping of values
DumpsDictOk(d) == \A k \in DOMAIN d : ~d[k].dt
DumpsDict(d) == [k \in DOMAIN d |-> JsonValue(d[k])]
\* a list of mappings
DumpsListOk(l) == \A n \in 1..Len(l) : DumpsDictOk(l[n])
DumpsList(l) == [n \in 1..Len(l) |-> DumpsDict(l[n])]

-----------------------------------------------------------------------------
(* mcp_env: the connection handle *)

LABEL_STUDIO_URL == "http://localhost:8080"
Client == "LabelStudio"

\* ls stays None without a (truthy) API key or when the constructor raises
Connect(api_key, ctor_ok) ==
    IF api_key \notin {"None", ""} /\ ctor_ok THEN Client ELSE "None"

-----------------------------------------------------------------------------
(* require_ls_connection *)

Sentinel ==
    <<"Error: Label Studio client not available. ",
      "Please check server logs for initialization errors ",
      "(e.g., missing 'LABEL_STUDIO_API_KEY', invalid key, or connection issue with 'LABEL_STUDIO_URL').">>

\* a faulty variant: the message of the exception is left out
WrapperErrorNoDetails(name, b) ==
    <<"Error in function '", name, "': ", "[", b.kind, "] ">>

\* the guard's formatting of an exception raised by the wrapped function
WrapperError(name, b) ==
    <<"Error in function '", name, "': ", "[", b.kind, "] ">> \o b.msg

\* a faulty variant: the wrapper does not look at ls
require_ls_connectionNoGuard(name, body) ==
    IF body.raised
    THEN [ret |-> RetText(WrapperError(name, body)), calls |-> body.calls, cfg |-> body.cfg]
    ELSE [ret |-> body.val, calls |-> body.calls, cfg |-> body.cfg]

\* wrapper(*args, **kwargs): body is what func(*args, **kwargs) would do
require_ls_connection(name, body) ==
    IF ls = "None"
    THEN [ret |-> RetText(Sentinel), calls |-> <<>>, cfg |-> remote_label_config]
    ELSE IF body.raised
         THEN [ret |-> RetText(WrapperError(name, body)),
               calls |-> body.calls, cfg |-> body.cfg]
         ELSE [ret |-> body.val, calls |-> body.calls, cfg |-> body.cfg]

\* one invocation of a registered tool by the hosting runtime
Invoke(name, supplied, body) ==
    LET w == require_ls_connection(name, body) IN
    /\ tool' = name
    /\ args' = supplied
    /\ ret' = w.ret
    /\ calls' = w.calls
    /\ remote_label_config' = w.cfg
    /\ UNCHANGED ls

-----------------------------------------------------------------------------
(* Shared pieces of the tool bodies *)

\* getattr(o, a, default)
GetAttr(o, a, default) == IF HasAttr(o, a) THEN o.f[a] ELSE default

\* return json.dumps(x), which raises TypeError on a datetime
DumpsObject(d, cs) ==
    IF DumpsDictOk(d) THEN Return(RetJson("object", DumpsDict(d)), cs, remote_label_config)
    ELSE Raise(JsonTypeError, cs, remote_label_config)
DumpsArray(l, cs) ==
    IF DumpsListOk(l) THEN Return(RetJson("array", DumpsList(l)), cs, remote_label_config)
    ELSE Raise(JsonTypeError, cs, remote_label_config)
DumpsOne(v, cs) ==
    IF ~v.dt THEN Return(RetJson("value", JsonValue(v)), cs, remote_label_config)
    ELSE Raise(JsonTypeError, cs, remote_label_config)

\* model_dump(exclude=...) / dict(): the fields as a mapping
ModelDump(o, exclude) == DictDel(o.f, exclude)

\* a faulty variant: the link to the project page, not to its data manager
ProjectUrlNoData(id) == Val("str", id.i, LABEL_STUDIO_URL, "{}/projects/{}", FALSE)

\* f"{LABEL_STUDIO_URL}/projects/{id}/data"
ProjectUrl(id) == Val("str", id.i, LABEL_STUDIO_URL, "{}/projects/{}/data", FALSE)

ProjectsLimit == 100
TasksLimit == 50

\* lengths of the collections a pager yields: short ones, and those around
\* a tool's limit
ShortLens == 0..MaxShort
LongLens(limit) == limit..(limit + MaxOver)

\* a faulty variant: the loop breaks on processed > limit
ForLoopOffByOne(pager, limit, pos, processed) ==
    LET n == Len(pager.objs) IN
    IF n >= limit + 1 THEN [raised |-> FALSE, processed |-> limit + 1]
    ELSE [raised |-> pager.breaks, processed |-> n]

\* for item in pager: if processed >= limit: break; append; processed += 1
\* (pos is the next item to fetch; fetching past the end of a broken pager raises)
RECURSIVE ForLoop(_, _, _, _)
ForLoop(pager, limit, pos, processed) ==
    IF pos > Len(pager.objs) THEN [raised |-> pager.breaks, processed |-> processed]
    ELSE IF processed >= limit THEN [raised |-> FALSE, processed |-> processed]
    ELSE ForLoop(pager, limit, pos + 1, processed + 1)

\* the call log once the pager's next fetch has raised
PagerRaised(c, out) == c \o <<Call("pager.next", EmptyDict, Err(out))>>

-----------------------------------------------------------------------------
(* get_label_studio_projects_tool *)

ProjectsPager(n, has_title) ==
    [i \in 1..n |->
        Obj("pydantic_v2",
            [k \in {"id", "task_number"} \cup (IF has_title THEN {"title"} ELSE {}) |->
                CASE k = "id" -> VInt(i)
                  [] k = "title" -> VStr("Project")
                  [] k = "task_number" -> VInt(7)])]

project_data(project) ==
    [id |-> project.f["id"],
     title |-> GetAttr(project, "title", VStr("N/A")),
     task_count |-> GetAttr(project, "task_number", VInt(0))]

get_projects_body(out) ==
    LET c == <<Call("projects.list", EmptyDict, out)>> IN
    IF out.raised THEN Raise(out, c, remote_label_config)
    ELSE LET loop == ForLoop(out, ProjectsLimit, 1, 0) IN
         IF loop.raised THEN Raise(out, PagerRaised(c, out), remote_label_config)
         ELSE DumpsArray([i \in 1..loop.processed |-> project_data(out.objs[i])], c)

\* what projects.list() can answer (projects without a title only in the
\* short collections)
ProjectsList ==
    Raising
    \cup {Ok(ProjectsPager(n, has_title)) : n \in ShortLens, has_title \in BOOLEAN}
    \cup {Ok(ProjectsPager(n, TRUE)) : n \in LongLens(ProjectsLimit)}
    \cup {Broken(ProjectsPager(n, TRUE), PageError) :
              n \in ShortLens \cup LongLens(ProjectsLimit)}

get_label_studio_projects_tool ==
      \E out \in ProjectsList :
        Invoke("get_label_studio_projects_tool", EmptyDict, get_projects_body(out))

-----------------------------------------------------------------------------
(* get_label_studio_project_details_tool *)

ConfigA == VStr("<View><Text name='text' value='$text'/></View>")
ConfigB == VStr("<View><Choices name='label' toName='text'/></View>")

\* a project as projects.get / create / update hands it back
ProjectObj(cls, id, has_title, config, created, pinned) ==
    Obj(cls,
        [k \in {"id", "label_config", "created_at", "updated_at", "description"}
               \cup (IF has_title THEN {"title"} ELSE {})
               \cup (IF pinned THEN {"pinned_at"} ELSE {}) |->
            CASE k = "id" -> VInt(id)
              [] k = "title" -> VStr("Project")
              [] k = "label_config" -> config
              [] k = "created_at" -> created
              [] k = "updated_at" -> VDatetime(2)
              [] k = "description" -> None
              [] k = "pinned_at" -> VDatetime(3)])

ProjectObjs(id, config) ==
    {ProjectObj(cls, id, TRUE, config, created, pinned) :
        cls \in {"pydantic_v2", "pydantic_v1", "object"},
        created \in {VDatetime(1), None}, pinned \in BOOLEAN}
    \cup {ProjectObj("object", id, FALSE, config, created, FALSE) :
              created \in {VDatetime(1), None}}

\* what projects.get(id=project_id) can answer
ProjectsGet(project_id) ==
    Raising \cup
    {Ok(<<o>>) : o \in ProjectObjs(project_id, remote_label_config[project_id])}

\* project.created_at.isoformat() if project.created_at else None
CreatedAtIso(project) ==
    LET created_at == project.f["created_at"] IN
    IF created_at.t = "NoneType" THEN None ELSE IsoFormat(created_at)

get_project_details_body(project_id, out) ==
    LET c == <<Call("projects.get", [id |-> VInt(project_id)], out)>> IN
    IF out.raised THEN Raise(out, c, remote_label_config)
    ELSE LET project == out.objs[1] IN
         IF HasAttr(project, "model_dump")
         THEN DumpsObject(DictSet(ModelDump(project, {"created_at", "updated_at"}),
                                  "created_at", CreatedAtIso(project)), c)
         ELSE IF HasAttr(project, "dict")
         THEN DumpsObject(DictDel(DictSet(ModelDump(project, {}),
                                          "created_at", CreatedAtIso(project)),
                                  {"updated_at"}), c)
         ELSE DumpsObject([id |-> project.f["id"],
                           title |-> GetAttr(project, "title", VStr("N/A"))], c)

get_label_studio_project_details_tool ==
    \E project_id \in ProjectIds :
      \E out \in ProjectsGet(project_id) :
        Invoke("get_label_studio_project_details_tool",
               [project_id |-> VInt(project_id)],
               get_project_details_body(project_id, out))

-----------------------------------------------------------------------------
(* get_label_studio_project_config_tool *)

\* a faulty variant: the configuration an update was asked to write is kept
\* locally and served to the next read of that project without a fetch
get_project_config_bodyLocal(project_id, out) ==
    IF /\ tool = "update_label_studio_project_config_tool"
       /\ args["project_id"] = VInt(project_id)
    THEN Return(RetValue(args["new_label_config"]), <<>>, remote_label_config)
    ELSE LET c == <<Call("projects.get", [id |-> VInt(project_id)], out)>> IN
         IF out.raised THEN Raise(out, c, remote_label_config)
         ELSE Return(RetValue(out.objs[1].f["label_config"]), c, remote_label_config)

get_project_config_body(project_id, out) ==
    LET c == <<Call("projects.get", [id |-> VInt(project_id)], out)>> IN
    IF out.raised THEN Raise(out, c, remote_label_config)
    ELSE Return(RetValue(out.objs[1].f["label_config"]), c, remote_label_config)

get_label_studio_project_config_tool ==
    \E project_id \in ProjectIds :
      \E out \in ProjectsGet(project_id) :
        Invoke("get_label_studio_project_config_tool",
               [project_id |-> VInt(project_id)],
               get_project_config_body(project_id, out))

-----------------------------------------------------------------------------
(* list_label_studio_project_tasks_tool *)

\* a task: its data is a mapping, something else, or missing; it may or may
\* not offer get_annotations
TaskObj(id, data_kind, annotated) ==
    Obj("pydantic_v2",
        [k \in {"id"} \cup (IF data_kind = "absent" THEN {} ELSE {"data"})
               \cup (IF annotated THEN {"get_annotations"} ELSE {}) |->
            CASE k = "id" -> VInt(id)
              [] k = "data" -> CASE data_kind = "dict" -> VDict("{'text': 'hello'}", FALSE)
                                 [] data_kind = "dict_dt" -> VDict("{'when': datetime}", TRUE)
                                 [] OTHER -> None
              [] k = "get_annotations" -> VMethod("get_annotations")])

DataKinds == {"dict", "dict_dt", "none", "absent"}

TasksPager(n, data_kind) == [i \in 1..n |-> TaskObj(i, data_kind, FALSE)]

\* list(task.data.keys())
DataKeys(data) == Val("list", 0, data.s, "keys()", FALSE)

task_summary(task) ==
    [id |-> task.f["id"],
     data_keys |-> IF HasAttr(task, "data") /\ task.f["data"].t = "dict"
                   THEN DataKeys(task.f["data"])
                   ELSE VList("[]", FALSE)]

list_project_tasks_body(project_id, out) ==
    LET c == <<Call("tasks.list", [project |-> VInt(project_id)], out)>> IN
    IF out.raised THEN Raise(out, c, remote_label_config)
    ELSE LET loop == ForLoop(out, TasksLimit, 1, 0) IN
         IF loop.raised THEN Raise(out, PagerRaised(c, out), remote_label_config)
         ELSE DumpsArray([i \in 1..loop.processed |-> task_summary(out.objs[i])], c)

\* what tasks.list(project=...) can answer (tasks without a data mapping
\* only in the short collections)
TasksList ==
    Raising
    \cup {Ok(TasksPager(n, data_kind)) :
              n \in ShortLens, data_kind \in {"dict", "none", "absent"}}
    \cup {Ok(TasksPager(n, "dict")) : n \in LongLens(TasksLimit)}
    \cup {Broken(TasksPager(n, "dict"), PageError) :
              n \in ShortLens \cup LongLens(TasksLimit)}

list_label_studio_project_tasks_tool ==
    \E project_id \in ProjectIds :
      \E out \in TasksList :
        Invoke("list_label_studio_project_tasks_tool",
               [project_id |-> VInt(project_id)],
               list_project_tasks_body(project_id, out))

-----------------------------------------------------------------------------
(* get_label_studio_task_data_tool *)

\* what tasks.get(id=task_id) can answer
TasksGet(task_id, data_kinds, annotateds) ==
    Raising \cup
    {Ok(<<TaskObj(task_id, data_kind, annotated)>>) :
        data_kind \in data_kinds, annotated \in annotateds}

get_task_data_body(task_id, out) ==
    LET c == <<Call("tasks.get", [id |-> VInt(task_id)], out)>> IN
    IF out.raised THEN Raise(out, c, remote_label_config)
    ELSE LET task == out.objs[1] IN
         IF HasAttr(task, "data") THEN DumpsOne(task.f["data"], c)
         ELSE DumpsObject(EmptyDict, c)

get_label_studio_task_data_tool ==
    \E task_id \in TaskIds :
      \E out \in TasksGet(task_id, DataKinds, {FALSE}) :
        Invoke("get_label_studio_task_data_tool",
               [project_id |-> VInt(ProjectOf(task_id)), task_id |-> VInt(task_id)],
               get_task_data_body(task_id, out))

-----------------------------------------------------------------------------
(* get_label_studio_task_annotations_tool *)

AnnotationObj(cls, id, created) ==
    Obj(cls, [id |-> VInt(id), result |-> VList("[{'value': ...}]", FALSE),
              created_at |-> created])

AnnotationObjs(id) ==
    {AnnotationObj(cls, id, created) :
        cls \in {"pydantic_v2", "pydantic_v1", "dict"},
        created \in {VDatetime(1), VStr("2024-01-01T00:00:00Z")}}
    \cup {AnnotationObj("object", id, VDatetime(1))}

\* the annotation lists task.get_annotations() can answer with: mappings
\* without a datetime, but for one annotation of any kind
AnnotationLists ==
    {<<>>} \cup
    UNION {{[i \in 1..n |-> IF i = j THEN a
                            ELSE AnnotationObj("dict", i, VStr("2024-01-01T00:00:00Z"))] :
               a \in AnnotationObjs(j)} : n \in 1..MaxAnnotations, j \in 1..MaxAnnotations}

serialize_annotation(anno) ==
    IF HasAttr(anno, "model_dump") THEN ModelDump(anno, {})
    ELSE IF HasAttr(anno, "dict") THEN ModelDump(anno, {})
    ELSE IF IsDict(anno) THEN anno.f
    ELSE [details |-> StrOf("annotation", anno.f["id"].i)]

get_task_annotations_body(task_id, out, out2) ==
    LET c == <<Call("tasks.get", [id |-> VInt(task_id)], out)>> IN
    IF out.raised THEN Raise(out, c, remote_label_config)
    ELSE LET task == out.objs[1] IN
         IF ~HasAttr(task, "get_annotations")
         THEN Raise(Exc("AttributeError",
                        <<"Task object (id: ", ToString(task_id),
                          ") does not have get_annotations method.">>),
                    c, remote_label_config)
         ELSE LET c2 == c \o <<Call("task.get_annotations", EmptyDict, out2)>> IN
              IF out2.raised THEN Raise(out2, c2, remote_label_config)
              ELSE DumpsArray([i \in 1..Len(out2.objs) |->
                                  serialize_annotation(out2.objs[i])], c2)

get_label_studio_task_annotations_tool ==
    \E task_id \in TaskIds :
      \E out \in TasksGet(task_id, {"dict"}, BOOLEAN) :
        \* get_annotations is called only on a task that was fetched and has it
        \E out2 \in IF ~out.raised /\ HasAttr(out.objs[1], "get_annotations")
                     THEN Raising \cup {Ok(l) : l \in AnnotationLists}
                     ELSE {Ok(<<>>)} :
          Invoke("get_label_studio_task_annotations_tool",
                 [project_id |-> VInt(ProjectOf(task_id)), task_id |-> VInt(task_id)],
                 get_task_annotations_body(task_id, out, out2))

-----------------------------------------------------------------------------
(* Shared pieces of the writing tools *)

\* Python's binding of keyword arguments: an omitted parameter takes its default
Bind(supplied, defaults) ==
    [k \in DOMAIN defaults \cup DOMAIN supplied |->
        IF k \in DOMAIN supplied THEN supplied[k] ELSE defaults[k]]

\* a faulty variant: {k: v for k, v in kwargs.items() if v} drops every
\* falsy value
Falsy(v) ==
    \/ v.t = "NoneType"
    \/ v.t \in {"bool", "int"} /\ v.i = 0
    \/ v.t = "float" /\ v.s = "0.0"
    \/ v.t = "str" /\ v.s = "" /\ v.fmt = ""
FilterFalsy(kwargs) ==
    [k \in {x \in DOMAIN kwargs : ~Falsy(kwargs[x])} |-> kwargs[k]]

\* {k: v for k, v in kwargs.items() if v is not None}
FilterNone(kwargs) ==
    [k \in {x \in DOMAIN kwargs : kwargs[x].t # "NoneType"} |-> kwargs[k]]

\* a faulty variant: str(value) in place of value.isoformat()
IsoOrSelfRaw(value) ==
    IF HasIsoformat(value) THEN StrOf("datetime", value.i) ELSE value

\* value.isoformat() if hasattr(value, 'isoformat') else value
IsoOrSelf(value) ==
    IF HasIsoformat(value) THEN IsoFormat(value) ELSE value

\* for attr in attrs: if hasattr(obj, attr): response_data[attr] = ...
AddAttrs(response_data, obj, attrs) ==
    LET present == {a \in attrs : HasAttr(obj, a)} IN
    [k \in DOMAIN response_data \cup present |->
        IF k \in present THEN IsoOrSelf(obj.f[k]) ELSE response_data[k]]

\* a faulty variant: the guard's bracketed form in the inner handlers
InnerErrorBracketed(prefix, e) ==
    <<prefix, "[", e.kind, "] ">> \o e.msg \o <<"\n", Traceback>>

\* f"<prefix>{type(e).__name__} - {e}\n{traceback.format_exc()}"
InnerError(prefix, e) ==
    <<prefix, e.kind, " - ">> \o e.msg \o <<"\n", Traceback>>

\* try: <body> except Exception as e: return <inner error text>
TryExcept(body, prefix) ==
    IF body.raised /\ IsInstance(body.kind, "Exception")
    THEN Return(RetText(InnerError(prefix, body)), body.calls, body.cfg)
    ELSE body

-----------------------------------------------------------------------------
(* create_label_studio_project_tool *)

CreateDefaults ==
    [description |-> None, expert_instruction |-> None,
     show_instruction |-> VBool(FALSE), show_skip_button |-> VBool(TRUE),
     enable_empty_annotation |-> VBool(TRUE),
     show_annotation_history |-> VBool(FALSE), color |-> None]

OptionalParams == DOMAIN CreateDefaults

\* a value a caller passes for each optional parameter
CreateSample ==
    [description |-> VStr("Sentiment of reviews"),
     expert_instruction |-> VStr("Pick one label"),
     show_instruction |-> VBool(TRUE), show_skip_button |-> VBool(FALSE),
     enable_empty_annotation |-> VBool(FALSE),
     show_annotation_history |-> VBool(TRUE), color |-> VStr("#FF0000")]

\* the optional parameters a caller supplies: none, one string, one flag, all
CreateSupplied ==
    {{}, {"description"}, {"show_skip_button"}, OptionalParams}

\* the id the remote platform gives a new project
NewProjectId == MaxProjectId + 1

create_project_body(supplied, out) ==
    LET kwargs == Bind(supplied, CreateDefaults)
        filtered_kwargs == FilterNone(kwargs)
        c == <<Call("projects.create", filtered_kwargs, out)>>
    IN
    IF out.raised THEN Raise(out, c, remote_label_config)
    ELSE LET project == out.objs[1] IN
         IF ~HasAttr(project, "title")
         THEN Raise(Exc("AttributeError", <<"'Project' object has no attribute 'title'">>),
                    c, remote_label_config)
         ELSE DumpsObject(
                AddAttrs([id |-> project.f["id"], title |-> project.f["title"],
                          project_url |-> ProjectUrl(project.f["id"])],
                         project,
                         {"description", "color", "expert_instruction",
                          "created_at", "label_config"}),
                c)

\* what projects.create(...) can answer
ProjectsCreate(label_config) ==
    Raising \cup
    {Ok(<<ProjectObj("pydantic_v2", NewProjectId, has_title, label_config, created, FALSE)>>) :
       has_title \in BOOLEAN, created \in {VDatetime(1), None}}

create_label_studio_project_tool ==
    \E S \in CreateSupplied, explicit_null \in BOOLEAN, label_config \in {ConfigA} :
      \E out \in ProjectsCreate(label_config) :
        LET supplied ==
              [k \in {"title", "label_config"} \cup S |->
                  CASE k = "title" -> VStr("Reviews")
                    [] k = "label_config" -> label_config
                    [] OTHER -> IF explicit_null THEN None ELSE CreateSample[k]]
        IN Invoke("create_label_studio_project_tool", supplied,
                  create_project_body(supplied, out))

-----------------------------------------------------------------------------
(* update_label_studio_project_config_tool *)

UpdatePrefix == "Error during Label Studio project config update API call: "

update_project_config_try(project_id, new_label_config, out) ==
    LET c == <<Call("projects.update",
                    [id |-> VInt(project_id), label_config |-> new_label_config], out)>>
        \* the remote project holds the new configuration once the call returned
        cfg == IF out.raised THEN remote_label_config
               ELSE [remote_label_config EXCEPT ![project_id] = new_label_config]
    IN
    IF out.raised THEN Raise(out, c, cfg)
    ELSE LET updated_project == out.objs[1]
             response_data ==
               [id |-> updated_project.f["id"],
                title |-> GetAttr(updated_project, "title", VStr("N/A")),
                label_config |-> GetAttr(updated_project, "label_config", new_label_config),
                project_url |-> ProjectUrl(updated_project.f["id"]),
                message |-> VStr("Project configuration updated successfully.")]
             d == AddAttrs(response_data, updated_project,
                           {"description", "color", "expert_instruction", "created_at"})
         IN IF DumpsDictOk(d) THEN Return(RetJson("object", DumpsDict(d)), c, cfg)
            ELSE Raise(JsonTypeError, c, cfg)

update_project_config_body(project_id, new_label_config, out) ==
    TryExcept(update_project_config_try(project_id, new_label_config, out), UpdatePrefix)

update_label_studio_project_config_tool ==
    \E project_id \in ProjectIds, new_label_config \in {ConfigA, ConfigB} :
      \E out \in Raising \cup
                 {Ok(<<ProjectObj("pydantic_v2", project_id, has_title,
                                  new_label_config, created, FALSE)>>) :
                    has_title \in BOOLEAN, created \in {VDatetime(1), None}} :
        Invoke("update_label_studio_project_config_tool",
               [project_id |-> VInt(project_id), new_label_config |-> new_label_config],
               update_project_config_body(project_id, new_label_config, out))

-----------------------------------------------------------------------------
(* import_label_studio_project_tasks_tool *)

ImportPrefix == "Error during Label Studio task import API call: "

\* what open(tasks_file_path) and json.load(f) can do: raise, or give the
\* parsed root of the file
FileOutcomes(path) ==
    {Err(Exc("FileNotFoundError", <<"[Errno 2] No such file or directory: '", path, "'">>)),
     Err(Exc("PermissionError", <<"[Errno 13] Permission denied: '", path, "'">>)),
     Err(Exc("IsADirectoryError", <<"[Errno 21] Is a directory: '", path, "'">>)),
     Err(Exc("JSONDecodeError", <<"Expecting value: line 1 column 1 (char 0)">>)),
     Err(Exc("UnicodeDecodeError", <<"'utf-8' codec can't decode byte 0xff in position 0">>)),
     Ok(<<VDict("{'not': 'a list'}", FALSE)>>),
     Ok(<<VStr("just text")>>),
     Ok(<<VList("[{'data': {'text': 'hello'}}]", FALSE)>>)}

\* a faulty variant: the root of the file is not checked to be a list
LoadTasksListUnchecked(path, file) == file

\* lines 312-318: the file's root, or what reading and checking it raised
LoadTasksList(path, file) ==
    IF file.raised THEN file
    ELSE IF file.objs[1].t # "list"
    THEN Err(Exc("ValueError",
                 <<"JSON file '", path, "' must contain a valid JSON array (list).">>))
    ELSE file

\* lines 322-332: the except clauses, in order
FileErrorText(path, e) ==
    IF IsInstance(e.kind, "FileNotFoundError")
    THEN <<"Error: Tasks file not found at path: ", path>>
    ELSE IF IsInstance(e.kind, "PermissionError")
    THEN <<"Error: Permission denied when trying to read file: ", path>>
    ELSE IF IsInstance(e.kind, "JSONDecodeError")
    THEN <<"Error: Invalid JSON format in file '", path, "' - ">> \o e.msg
    ELSE IF IsInstance(e.kind, "ValueError")
    THEN <<"Error processing tasks file: ">> \o e.msg
    ELSE <<"Unexpected error reading/processing tasks file '", path, "': ",
           e.kind, " - ">> \o e.msg \o <<"\n", Traceback>>

\* what projects.import_tasks(...) can hand back
ImportResults ==
    {Obj(cls, [k \in {"task_count"} \cup extra |->
                  CASE k = "task_count" -> VInt(1)
                    [] k = "project_url" -> VStr("stale")
                    [] k = "finished_at" -> VDatetime(4)]) :
        cls \in {"dict", "pydantic_v2", "pydantic_v1", "object"},
        extra \in {{}, {"finished_at"}}}
    \cup {Obj("dict", [task_count |-> VInt(1), project_url |-> VStr("stale")])}

\* lines 350-359
final_response_of(import_result) ==
    IF IsDict(import_result) THEN import_result.f
    ELSE IF HasAttr(import_result, "model_dump") THEN ModelDump(import_result, {})
    ELSE IF HasAttr(import_result, "dict") THEN ModelDump(import_result, {})
    ELSE [message |-> VStr("Import initiated"),
          details |-> StrOf("import_result", 0)]

import_project_tasks_body(project_id, path, file, out) ==
    LET c0 == <<Call("open", [file |-> VStr(path)], file)>>
        loaded == LoadTasksList(path, file)
    IN
    IF loaded.raised
    THEN Return(RetText(FileErrorText(path, loaded)), c0, remote_label_config)
    ELSE LET tasks_list == loaded.objs[1]
             project_url == ProjectUrl(VInt(project_id))
             c == c0 \o <<Call("projects.import_tasks",
                               [id |-> VInt(project_id), request |-> tasks_list], out)>>
         IN
         IF out.raised
         THEN Return(RetText(InnerError(ImportPrefix, out)), c, remote_label_config)
         ELSE DumpsObject(DictSet(final_response_of(out.objs[1]),
                                  "project_url", project_url), c)

FilePaths == {"tasks.json", "/data/tasks.json"}

import_label_studio_project_tasks_tool ==
    \E project_id \in ProjectIds, path \in FilePaths :
      \E file \in FileOutcomes(path) :
        \* the import is called only with a list read from the file
        \E out \in IF ~LoadTasksList(path, file).raised
                    THEN Raising \cup {Ok(<<r>>) : r \in ImportResults}
                    ELSE {Ok(<<>>)} :
          Invoke("import_label_studio_project_tasks_tool",
                 [project_id |-> VInt(project_id), tasks_file_path |-> VStr(path)],
                 import_project_tasks_body(project_id, path, file, out))

-----------------------------------------------------------------------------
(* create_label_studio_prediction_tool *)

PredictionPrefix == "Error during Label Studio prediction create/serialize: "

PredictionDefaults == [model_version |-> None, score |-> None]

PredictionResult ==
    VList("[{'from_name': 'label', 'to_name': 'text', 'type': 'choices', 'value': {'choices': ['Positive']}}]",
          FALSE)

\* an optional argument a caller passes: null, falsy, ordinary
PredictionArg(k, how) ==
    CASE how = "null" -> None
      [] k = "model_version" -> IF how = "falsy" THEN VStr("") ELSE VStr("v1")
      [] k = "score" -> IF how = "falsy" THEN VFloat("0.0") ELSE VFloat("0.9")

\* the prediction objects predictions.create(...) can hand back: the fields
\* sent, echoed; "nested" has a datetime inside result, "sparse" lacks score
\* and holds an object as task
PredictionObj(kw, variant) ==
    Obj("pydantic_v2",
        [k \in {"id", "task", "model_version", "result", "created_at", "updated_at"}
               \cup (IF variant = "sparse" THEN {} ELSE {"score"}) |->
            CASE k = "id" -> VInt(1)
              [] k = "task" -> IF variant = "sparse" THEN Val("Task", 0, "", "", FALSE)
                               ELSE kw["task"]
              [] k = "result" -> IF variant = "nested"
                                 THEN VList("[{'value': ..., 'at': datetime}]", TRUE)
                                 ELSE kw["result"]
              [] k \in {"model_version", "score"} ->
                    IF k \in DOMAIN kw THEN kw[k] ELSE None
              [] k = "created_at" -> VDatetime(5)
              [] k = "updated_at" -> VDatetime(6)])

PredictionAttrs ==
    {"id", "task", "model_version", "score", "result", "created_at", "updated_at"}

\* lines 410-418: datetimes as ISO text, basic types as they are, others skipped
response_of_prediction(created_prediction) ==
    LET kept == {a \in PredictionAttrs :
                    /\ HasAttr(created_prediction, a)
                    /\ created_prediction.f[a].t \in
                         {"datetime", "str", "int", "float", "list", "dict", "bool",
                          "NoneType"}}
    IN [k \in {"message"} \cup kept |->
          IF k \in kept
          THEN IF created_prediction.f[k].t = "datetime"
               THEN IsoFormat(created_prediction.f[k])
               ELSE created_prediction.f[k]
          ELSE VStr("Prediction created successfully.")]

create_prediction_try(sdk_kwargs, out) ==
    LET c == <<Call("predictions.create", sdk_kwargs, out)>> IN
    IF out.raised THEN Raise(out, c, remote_label_config)
    ELSE DumpsObject(response_of_prediction(out.objs[1]), c)

create_prediction_body(supplied, out) ==
    LET sdk_kwargs ==
          [k \in {"task", "result", "model_version", "score"} |->
              CASE k = "task" -> supplied["task_id"]
                [] k = "result" -> supplied["result"]
                [] OTHER -> Bind(supplied, PredictionDefaults)[k]]
    IN TryExcept(create_prediction_try(FilterNone(sdk_kwargs), out), PredictionPrefix)

create_label_studio_prediction_tool ==
    \E task_id \in TaskIds, S \in SUBSET {"model_version", "score"},
       how \in {"null", "falsy", "plain"} :
      LET supplied ==
            [k \in {"task_id", "result"} \cup S |->
                CASE k = "task_id" -> VInt(task_id)
                  [] k = "result" -> PredictionResult
                  [] OTHER -> PredictionArg(k, how)]
          sent == FilterNone([k \in {"task", "result"} \cup S |->
                                 CASE k = "task" -> VInt(task_id)
                                   [] k = "result" -> PredictionResult
                                   [] OTHER -> supplied[k]])
      IN \E out \in Raising \cup
                    {Ok(<<PredictionObj(sent, variant)>>) :
                        variant \in IF how = "plain" THEN {"full", "nested", "sparse"}
                                    ELSE {"full"}} :
           Invoke("create_label_studio_prediction_tool", supplied,
                  create_prediction_body(supplied, out))

-----------------------------------------------------------------------------

Init ==
    /\ \E api_key \in {"None", "", "secret"}, ctor_ok \in BOOLEAN :
          ls = Connect(api_key, ctor_ok)
    /\ remote_label_config \in [ProjectIds -> {ConfigA, None}]
    /\ tool = ""
    /\ args = EmptyDict
    /\ calls = <<>>
    /\ ret = NoRet

Next ==
    \/ get_label_studio_projects_tool
    \/ get_label_studio_project_details_tool
    \/ get_label_studio_project_config_tool
    \/ list_label_studio_project_tasks_tool
    \/ get_label_studio_task_data_tool
    \/ get_label_studio_task_annotations_tool
    \/ create_label_studio_project_tool
    \/ update_label_studio_project_config_tool
    \/ import_label_studio_project_tasks_tool
    \/ create_label_studio_prediction_tool

Spec == Init /\ [][Next]_vars

-----------------------------------------------------------------------------
(* Vocabulary of the properties *)

Connected == ls # "None"

RemoteOps ==
    {"projects.list", "pager.next", "projects.get", "projects.create",
     "projects.update", "projects.import_tasks", "tasks.list", "tasks.get",
     "task.get_annotations", "predictions.create"}

\* the tools whose only handler is the guard, and those with an inner handler
GuardOnlyTools ==
    {"get_label_studio_projects_tool", "get_label_studio_project_details_tool",
     "get_label_studio_project_config_tool", "list_label_studio_project_tasks_tool",
     "get_label_studio_task_data_tool", "get_label_studio_task_annotations_tool",
     "create_label_studio_project_tool"}
InnerHandlerPrefix ==
    [update_label_studio_project_config_tool |->
        "Error during Label Studio project config update API call: ",
     import_label_studio_project_tasks_tool |->
        "Error during Label Studio task import API call: ",
     create_label_studio_prediction_tool |->
        "Error during Label Studio prediction create/serialize: "]

LastCall == calls[Len(calls)]
\* the invocation made a remote call and that call raised
RemoteRaised ==
    /\ Connected
    /\ Len(calls) > 0
    /\ LastCall.op \in RemoteOps
    /\ LastCall.out.raised
CallsOf(op) == {i \in 1..Len(calls) : calls[i].op = op}

\* sub occurs in text as a run of consecutive tokens
Contains(text, sub) ==
    \E i \in 0..(Len(text) - Len(sub)) : SubSeq(text, i + 1, i + Len(sub)) = sub

IsSentinel(r) ==
    /\ r.ty = "str"
    /\ r.form = "text"
    /\ r.text = <<"Error: Label Studio client not available. ",
                  "Please check server logs for initialization errors ",
                  "(e.g., missing 'LABEL_STUDIO_API_KEY', invalid key, or connection issue with 'LABEL_STUDIO_URL').">>

Min(a, b) == IF a < b THEN a ELSE b

-----------------------------------------------------------------------------
\* C1: with the connection handle unset, every tool returns exactly the fixed
\* sentinel string for every argument tuple, and no client call and no file
\* read is made.
Thm_C1 ==
    (tool # "" /\ ~Connected) =>
        /\ IsSentinel(ret)
        /\ Len(calls) = 0

\* an import invoked with the handle unset
Wit_C1 ==
    /\ ~Connected
    /\ tool = "import_label_studio_project_tasks_tool"
    /\ "tasks_file_path" \in DOMAIN args

\* C2: with the handle set, when a remote client call raises, the tool returns
\* a string that contains the exception's type name and its message text.
Thm_C2 ==
    RemoteRaised =>
        /\ ret.ty = "str"
        /\ ret.form = "text"
        /\ Contains(ret.text, <<LastCall.out.kind>>)
        /\ Contains(ret.text, LastCall.out.msg)

\* the guard alone handles a raising fetch of a project
Wit_C2 ==
    /\ RemoteRaised
    /\ tool = "get_label_studio_project_details_tool"
    /\ LastCall.out.kind = "ApiError"

\* C3: create_project called with only title and label_config forwards exactly
\* the keys {title, label_config}; an optional field the caller omitted is
\* never sent.
Cex_C3 ==
    (Connected /\ tool = "create_label_studio_project_tool") =>
        /\ Len(calls) = 1
        /\ (DOMAIN args = {"title", "label_config"}
               => DOMAIN calls[1].kw = {"title", "label_config"})
        /\ \A k \in OptionalParams \ DOMAIN args : k \notin DOMAIN calls[1].kw

\* C4: for every tool and every outcome the value returned is a string.
Cex_C4 == tool # "" => ret.ty = "str"

\* C5: list_projects returns the first min(n, 100) entries of the remote
\* collection, list_project_tasks the first min(n, 50), in pager order.
ListLimit ==
    [get_label_studio_projects_tool |-> 100,
     list_label_studio_project_tasks_tool |-> 50]

Thm_C5 ==
    (Connected /\ tool \in DOMAIN ListLimit) =>
        LET pager == calls[1].out IN
        /\ ret.form = "json" =>
              /\ ret.shape = "array"
              /\ Len(ret.payload) <= ListLimit[tool]
              /\ Len(ret.payload) = Min(Len(pager.objs), ListLimit[tool])
              /\ \A i \in 1..Len(ret.payload) :
                    ret.payload[i]["id"].i = pager.objs[i].f["id"].i
        \* a collection that was fetched whole, or up to the limit, is answered
        /\ (~pager.raised /\ (~pager.breaks \/ Len(pager.objs) > ListLimit[tool]))
              => ret.form = "json"

\* a project collection larger than the limit was listed
Wit_C5 ==
    /\ Connected
    /\ tool = "get_label_studio_projects_tool"
    /\ ret.form = "json"
    /\ Len(calls[1].out.objs) > 100

\* C6: when the tasks file is missing, unreadable, not JSON, or has a root that
\* is not a list, import_project_tasks returns the error text of that failure
\* and never calls the remote import.
FileFailure(file) ==
    IF file.raised
    THEN IF file.kind \in {"FileNotFoundError", "PermissionError", "JSONDecodeError"}
         THEN file.kind ELSE "other"
    ELSE IF file.objs[1].t # "list" THEN "not a list" ELSE "none"

FileFailurePrefix ==
    [FileNotFoundError |-> "Error: Tasks file not found at path: ",
     PermissionError |-> "Error: Permission denied when trying to read file: ",
     JSONDecodeError |-> "Error: Invalid JSON format in file '",
     not_a_list |-> "Error processing tasks file: "]

Thm_C6 ==
    (Connected /\ tool = "import_label_studio_project_tasks_tool") =>
        LET failure == FileFailure(calls[1].out)
            path == args["tasks_file_path"].s
        IN
        /\ calls[1].op = "open"
        /\ failure # "none" => CallsOf("projects.import_tasks") = {}
        /\ failure \in {"FileNotFoundError", "PermissionError", "JSONDecodeError"} =>
              /\ ret.form = "text"
              /\ ret.text[1] = FileFailurePrefix[failure]
              /\ ret.text[2] = path
        /\ failure = "not a list" =>
              /\ ret.form = "text"
              /\ ret.text = <<FileFailurePrefix["not_a_list"], "JSON file '", path,
                              "' must contain a valid JSON array (list).">>

\* a file holding a JSON object was given
Wit_C6 ==
    /\ Connected
    /\ tool = "import_label_studio_project_tasks_tool"
    /\ ~calls[1].out.raised
    /\ calls[1].out.objs[1].t = "dict"
    /\ ret.form = "text"

-----------------------------------------------------------------------------
\* the link to a project's data manager, written out
DataManagerUrl(project_id) ==
    [t |-> "string", i |-> project_id, s |-> "http://localhost:8080",
     fmt |-> "{}/projects/{}/data", dt |-> FALSE]

\* the tasks file was read and its root is a list
ListFileRead ==
    /\ Connected
    /\ tool = "import_label_studio_project_tasks_tool"
    /\ ~calls[1].out.raised
    /\ calls[1].out.objs[1].t = "list"

\* exactly one bulk import, for the given project, of exactly the parsed list
OneImportCall ==
    /\ CallsOf("projects.import_tasks") = {2}
    /\ Len(calls) = 2
    /\ DOMAIN calls[2].kw = {"id", "request"}
    /\ calls[2].kw["id"] = args["project_id"]
    /\ calls[2].kw["request"] = calls[1].out.objs[1]

\* the mapping the answer is merged over: the result's own fields, or
\* {message, details} for a result that is no mapping and has no dump accessor
ImportBase(result) ==
    IF result.cls = "object" THEN {"message", "details"} ELSE DOMAIN result.f

\* the result of the import can be written as JSON once merged
ImportEncodable(result) ==
    result.cls = "object" \/ \A k \in DOMAIN result.f \ {"project_url"} : ~result.f[k].dt

ImportAnswer ==
    /\ ret.form = "json"
    /\ ret.shape = "object"
    /\ "project_url" \in DOMAIN ret.payload
    /\ ret.payload["project_url"] = DataManagerUrl(args["project_id"].i)

Thm_C8 ==
    (Connected /\ tool = "create_label_studio_prediction_tool") =>
        LET given == {k \in {"model_version", "score"} \cap DOMAIN args :
                         args[k].t # "NoneType"}
        IN
        /\ Len(calls) = 1
        /\ calls[1].op = "predictions.create"
        /\ DOMAIN calls[1].kw = {"task", "result"} \cup given
        /\ calls[1].kw["task"] = args["task_id"]
        /\ calls[1].kw["result"] = args["result"]
        /\ \A k \in given : calls[1].kw[k] = args[k]

\* a prediction with score 0.0 and an empty model_version was created
Wit_C8 ==
    /\ Connected
    /\ tool = "create_label_studio_prediction_tool"
    /\ DOMAIN args = {"task_id", "result", "model_version", "score"}
    /\ args["score"].t = "float" /\ args["score"].s = "0.0"
    /\ args["model_version"].t = "str" /\ args["model_version"].s = ""
    /\ "score" \in DOMAIN calls[1].kw

\* C9 as stated: every tool returns a remote failure in the form
\* [<ErrorKind>] <message>.
Cex_C9 ==
    RemoteRaised =>
        Contains(ret.text, <<"[", LastCall.out.kind, "] ">> \o LastCall.out.msg)

\* C9 amended: a tool that has only the guard returns a remote failure as
\* "Error in function '<name>': [<ErrorKind>] <message>"; update_project_config,
\* import_project_tasks and create_prediction return it as
\* "<prefix><ErrorKind> - <message>", a newline and the traceback text, without
\* the square brackets.
Thm_C9 ==
    RemoteRaised =>
        /\ ret.form = "text"
        /\ tool \in GuardOnlyTools =>
              ret.text = <<"Error in function '", tool, "': ", "[", LastCall.out.kind, "] ">>
                         \o LastCall.out.msg
        /\ tool \in DOMAIN InnerHandlerPrefix =>
              ret.text = <<InnerHandlerPrefix[tool], LastCall.out.kind, " - ">>
                         \o LastCall.out.msg
                         \o <<"\n", "Traceback (most recent call last): ...">>

\* the remote update of a project's configuration raised
Wit_C9 ==
    /\ RemoteRaised
    /\ tool = "update_label_studio_project_config_tool"

-----------------------------------------------------------------------------
\* the object the answer is built from: what the last call handed back
Answered == Connected /\ Len(calls) > 0 /\ ~LastCall.out.raised /\ ret.form = "json"

IsIsoText(v, instant) == v.t = "string" /\ v.fmt = "isoformat" /\ v.i = instant /\ ~v.dt

\* no datetime object in a JSON mapping
CleanDict(d) == \A k \in DOMAIN d : ~d[k].dt /\ d[k].t # "datetime"

\* the datetime fields of o that d shows are ISO-8601 texts
IsoFields(d, o) ==
    \A k \in DOMAIN d \cap DOMAIN o.f :
        o.f[k].t = "datetime" => IsIsoText(d[k], o.f[k].i)

\* a dumped object (or mapping) that holds a datetime the tool leaves as it is
CarriesDatetime(o, converted) ==
    /\ o.cls # "object"
    /\ \E k \in DOMAIN o.f \ converted : o.f[k].dt

\* C10: in every successful JSON output a field that is a datetime on the
\* remote object is an ISO-8601 string, never a raw datetime; a response that
\* carries a datetime the tool does not convert gives an error string and no
\* JSON output.
Thm_C10 ==
    /\ Answered =>
          CASE ret.shape = "object" ->
                  /\ CleanDict(ret.payload)
                  /\ Len(LastCall.out.objs) = 1 /\ tool # "get_label_studio_task_data_tool"
                        => IsoFields(ret.payload, LastCall.out.objs[1])
            [] ret.shape = "array" ->
                  \A i \in 1..Len(ret.payload) :
                      /\ CleanDict(ret.payload[i])
                      /\ IsoFields(ret.payload[i], LastCall.out.objs[i])
            [] OTHER -> ~ret.payload.dt
    /\ (Connected /\ Len(calls) > 0 /\ ~LastCall.out.raised) =>
          /\ (/\ tool = "get_label_studio_task_annotations_tool"
              /\ LastCall.op = "task.get_annotations"
              /\ \E i \in 1..Len(LastCall.out.objs) :
                    CarriesDatetime(LastCall.out.objs[i], {}))
                => ret.form = "text"
          /\ (/\ tool = "get_label_studio_project_details_tool"
              /\ CarriesDatetime(LastCall.out.objs[1], {"created_at", "updated_at"}))
                => ret.form = "text"
          /\ (/\ tool = "import_label_studio_project_tasks_tool"
              /\ LastCall.op = "projects.import_tasks"
              /\ CarriesDatetime(LastCall.out.objs[1], {}))
                => ret.form = "text"
          /\ (/\ tool = "get_label_studio_task_data_tool"
              /\ "data" \in DOMAIN LastCall.out.objs[1].f
              /\ LastCall.out.objs[1].f["data"].dt)
                => ret.form = "text"
          /\ (/\ tool = "create_label_studio_prediction_tool"
              /\ LastCall.out.objs[1].f["result"].dt)
                => ret.form = "text"

\* a created project with a creation time was answered as JSON
Wit_C10 ==
    /\ Answered
    /\ tool = "create_label_studio_project_tool"
    /\ LastCall.out.objs[1].f["created_at"].t = "datetime"
    /\ "created_at" \in DOMAIN ret.payload

-----------------------------------------------------------------------------
\* the read tools, and the remote fetch each starts with: the client
\* operation and the argument of the invocation it carries
ReadTools ==
    {"get_label_studio_projects_tool", "get_label_studio_project_details_tool",
     "get_label_studio_project_config_tool", "list_label_studio_project_tasks_tool",
     "get_label_studio_task_data_tool", "get_label_studio_task_annotations_tool"}

FetchOf(name, a) ==
    CASE name = "get_label_studio_projects_tool" ->
            [op |-> "projects.list", kw |-> EmptyDict]
      [] name \in {"get_label_studio_project_details_tool",
                   "get_label_studio_project_config_tool"} ->
            [op |-> "projects.get", kw |-> [id |-> a["project_id"]]]
      [] name = "list_label_studio_project_tasks_tool" ->
            [op |-> "tasks.list", kw |-> [project |-> a["project_id"]]]
      [] OTHER ->
            [op |-> "tasks.get", kw |-> [id |-> a["task_id"]]]

\* the invocation began with its own fetch
OwnFetch ==
    /\ Len(calls) >= 1
    /\ calls[1].op = FetchOf(tool, args).op
    /\ calls[1].kw = FetchOf(tool, args).kw

\* the annotations of a fetched task are fetched in the same invocation
OwnAnnotationsFetch ==
    (/\ tool = "get_label_studio_task_annotations_tool"
     /\ ~calls[1].out.raised
     /\ HasAttr(calls[1].out.objs[1], "get_annotations"))
        => /\ Len(calls) = 2
           /\ calls[2].op = "task.get_annotations"

\* the label configuration shown is the one the remote project holds now
ShowsRemoteConfig ==
    LET now == remote_label_config[args["project_id"].i] IN
    /\ (tool = "get_label_studio_project_config_tool" /\ ~calls[1].out.raised)
          => ret = RetValue(now)
    /\ (/\ tool = "get_label_studio_project_details_tool"
        /\ ret.form = "json"
        /\ "label_config" \in DOMAIN ret.payload)
          => ret.payload["label_config"] = JsonValue(now)

\* a read invoked with the handle set
FreshRead ==
    (Connected /\ tool \in ReadTools) =>
        /\ OwnFetch
        /\ OwnAnnotationsFetch
        /\ tool \in {"get_label_studio_project_config_tool",
                     "get_label_studio_project_details_tool"} => ShowsRemoteConfig

\* C11: no tool invocation changes the connection handle; with the handle
\* set, every read tool begins with its own remote fetch for the arguments of
\* that invocation (and fetches the annotations of the task it fetched),
\* leaves the remote configuration as it is, and the configuration it shows
\* is the one the remote project holds at that moment, so after a successful
\* update it is the new one and never one kept from an earlier invocation.
Thm_C11 ==
    [][/\ ls' = ls
       /\ FreshRead'
       /\ (Connected /\ tool' \in ReadTools) =>
              remote_label_config' = remote_label_config]_vars

\* the configuration read back is one only a successful update can have put
\* on the remote project
Wit_C11 ==
    /\ Connected
    /\ tool = "get_label_studio_project_config_tool"
    /\ Len(calls) = 1
    /\ ~calls[1].out.raised
    /\ ret = RetValue(ConfigB)
    /\ remote_label_config[args["project_id"].i] = ConfigB

====
